---- MODULE Spec2Model ----
(***************************************************************************)
(* The Gecko core view of res/gecko.py: main resolves a timestamp index,   *)
(* get_reg_info reads and renders the 32 registers with their hazard       *)
(* depth, get_instruction_info reads and renders the seven memory words    *)
(* around the program counter, decode picks the instruction class of a     *)
(* word.  Text is a sequence of one-character strings.  Values are kept    *)
(* below 2^31.                                                             *)
(***************************************************************************)
EXTENDS Integers, Sequences, FiniteSets, TLC

VARIABLES
    cursor,          \* the cursor time handed to main
    waveform,        \* the recorded waveform: times, values, absent values
    vcd_header,      \* the header: the paths it has no variable for
    buffer,          \* the character grid: width, bounds policy, cells
    insns,           \* the catalog of instruction classes, in declaration order
    stage,           \* position of the render pass
    timestamp_index, \* main's timestamp_index
    reg,             \* get_reg_info's loop variable
    i,               \* get_instruction_info's loop index
    pc_value,        \* get_instruction_info's pc_value
    calls,           \* the set_cell calls made by the last step, as runs
    log,             \* the header and waveform lookups made so far
    exc,             \* the exception that ended the pass, if any
    word,            \* decode's word argument (decoder runs)
    variant,         \* decode's variant argument (decoder runs)
    result           \* decode's outcome (decoder runs)

vars == <<cursor, waveform, vcd_header, buffer, insns, stage, timestamp_index,
          reg, i, pc_value, calls, log, exc, word, variant, result>>

\* ------------------------------------------------------------------ bounds
MaxCounter == 7
MaxPC == 4
MaxInsns == 3

\* ------------------------------------------------------------------- text
HexDigits == <<"0","1","2","3","4","5","6","7","8","9","a","b","c","d","e","f">>

RECURSIVE Digits(_, _)
Digits(n, base) ==
    IF n < base THEN <<HexDigits[n + 1]>>
    ELSE Digits(n \div base, base) \o <<HexDigits[(n % base) + 1]>>

\* str(n) of a non-negative integer
str(n) == Digits(n, 10)

RECURSIVE Repeat(_, _)
Repeat(ch, n) == IF n <= 0 THEN <<>> ELSE <<ch>> \o Repeat(ch, n - 1)

\* s.ljust(n)
ljust(s, n) == s \o Repeat(" ", n - Len(s))

\* "0x{:08x}".format(n): at least eight characters after 0x, zero padded on
\* the left, the sign of a negative number first and counted in the eight
Hex08(n) ==
    LET d == Digits(IF n < 0 THEN 0 - n ELSE n, 16)
    IN IF n < 0 THEN <<"0", "x", "-">> \o Repeat("0", 7 - Len(d)) \o d
       ELSE <<"0", "x">> \o Repeat("0", 8 - Len(d)) \o d

RECURSIVE BitAnd(_, _)
\* a & b for b >= 0; a negative a is its two's complement, as in Python
BitAnd(a, b) ==
    IF a = 0 \/ b = 0 THEN 0
    ELSE (a % 2) * (b % 2) + 2 * BitAnd(a \div 2, b \div 2)

\* --------------------------------------------------------- register names
get_reg_name(reg_num) ==
    << <<"x","0">>, <<"r","a">>, <<"s","p">>, <<"g","p">>,
       <<"t","p">>, <<"t","0">>, <<"t","1">>, <<"t","2">>,
       <<"s","0">>, <<"s","1">>, <<"a","0">>, <<"a","1">>,
       <<"a","2">>, <<"a","3">>, <<"a","4">>, <<"a","5">>,
       <<"a","6">>, <<"a","7">>, <<"s","2">>, <<"s","3">>,
       <<"s","4">>, <<"s","5">>, <<"s","6">>, <<"s","7">>,
       <<"s","8">>, <<"s","9">>, <<"s","1","0">>, <<"s","1","1">>,
       <<"t","3">>, <<"t","4">>, <<"t","5">>, <<"t","6">> >>[reg_num + 1]

\* ------------------------------------------------------------ signal paths
\* A path is the text before the index, and the index inside data[...].
get_reg_path(reg_num) ==
    [prefix |-> "TOP.gecko_nano_wrapper.inst.core.gecko_decode_inst.regfile.register_file_inst.xilinx_distributed_ram_inst.data",
     index |-> reg_num]

get_reg_status_front_path(reg_num) ==
    [prefix |-> "TOP.gecko_nano_wrapper.inst.core.gecko_decode_inst.regfile.register_status_front_inst.xilinx_distributed_ram_inst.data",
     index |-> reg_num]

get_reg_status_rear_path(reg_num) ==
    [prefix |-> "TOP.gecko_nano_wrapper.inst.core.gecko_decode_inst.regfile.register_status_rear_inst.xilinx_distributed_ram_inst.data",
     index |-> reg_num]

get_pc_path ==
    [prefix |-> "TOP.gecko_nano_wrapper.inst.core.gecko_fetch_inst.pc",
     index |-> -1]

get_mem_path(addr) ==
    [prefix |-> "TOP.gecko_nano_wrapper.inst.mem.gen_xilinx.xilinx_block_ram_double_inst.data",
     index |-> addr]

\* ------------------------------------------------- the host's collaborators
\* The memory image the waveform holds: a short program, repeated.
Program == <<19, 0, 51, 2147483647, 1, 33554483>>

\* The value the waveform records for a path.
SignalValue(wf, path) ==
    IF path = get_pc_path THEN wf.pc
    ELSE IF path.prefix = get_reg_path(0).prefix THEN wf.vseed + path.index
    ELSE IF path.prefix = get_reg_status_front_path(0).prefix
         THEN (wf.fseed + path.index) % (MaxCounter + 1)
    ELSE IF path.prefix = get_reg_status_rear_path(0).prefix
         THEN (wf.rseed + 3 * path.index) % (MaxCounter + 1)
    ELSE Program[((path.index + wf.shift) % Len(Program)) + 1]

\* waveform.search_timestamp(cursor, Before): the latest index whose time is
\* at or before the cursor, None when there is none.
search_timestamp(wf, cur) ==
    LET before == {k \in 1..Len(wf.times) : wf.times[k] <= cur}
    IN IF before = {} THEN [some |-> FALSE]
       ELSE [some |-> TRUE,
             index |-> (CHOOSE k \in before : \A m \in before : m <= k) - 1]

\* waveform.get_timestamp(index)
get_timestamp(wf, index) == wf.times[index + 1]

\* vcd_header.get_variable(path): None when the header has no such variable
get_variable(hdr, path) ==
    IF path \in hdr.absent THEN [some |-> FALSE]
    ELSE [some |-> TRUE, idcode |-> path]

\* waveform.search_value(idcode, timestamp_index): None when no value
search_value(wf, idcode, index) ==
    IF idcode \in wf.absent THEN [some |-> FALSE]
    ELSE [some |-> TRUE, value |-> SignalValue(wf, idcode)]

\* buffer.get_width()
get_width(buf) == buf.width

\* buffer.set_cell for a run of cells: run.text[k] goes to column
\* run.col + k - 1 of row run.row.
WriteRun(cells, run) ==
    LET old == IF run.row \in DOMAIN cells THEN cells[run.row] ELSE <<>>
        span == run.col .. (run.col + Len(run.text) - 1)
        new == [c \in (DOMAIN old) \cup span |->
                   IF c \in span THEN run.text[c - run.col + 1] ELSE old[c]]
    IN IF Len(run.text) = 0 THEN cells
       ELSE [r \in (DOMAIN cells) \cup {run.row} |->
                IF r = run.row THEN new ELSE cells[r]]

RECURSIVE WriteRuns(_, _)
WriteRuns(cells, runs) ==
    IF runs = <<>> THEN cells
    ELSE WriteRuns(WriteRun(cells, Head(runs)), Tail(runs))

\* The part of a run the grid takes: all of it when the grid tolerates
\* columns past its width, the cells before the first such column when it
\* rejects them.
Taken(buf, run) ==
    IF ~buf.strict \/ run.col + Len(run.text) <= buf.width THEN run
    ELSE [run EXCEPT !.text =
             SubSeq(run.text, 1, IF buf.width > run.col THEN buf.width - run.col ELSE 0)]

Rejected(buf, run) == buf.strict /\ run.col + Len(run.text) > buf.width

RECURSIVE TakenRuns(_, _)
\* The runs made before the grid rejects a cell, the cut one last.
TakenRuns(buf, runs) ==
    IF runs = <<>> THEN <<>>
    ELSE IF Rejected(buf, Head(runs)) THEN <<Taken(buf, Head(runs))>>
    ELSE <<Head(runs)>> \o TakenRuns(buf, Tail(runs))

\* The set_cell calls made: every run up to the rejected one, which ends
\* with the cell the grid rejected.
Attempted(buf, run) ==
    IF ~Rejected(buf, run) THEN run
    ELSE [run EXCEPT !.text =
             SubSeq(run.text, 1, IF buf.width > run.col THEN buf.width - run.col + 1 ELSE 1)]

RECURSIVE AttemptedRuns(_, _)
AttemptedRuns(buf, runs) ==
    IF runs = <<>> THEN <<>>
    ELSE IF Rejected(buf, Head(runs)) THEN <<Attempted(buf, Head(runs))>>
    ELSE <<Head(runs)>> \o AttemptedRuns(buf, Tail(runs))

AnyRejected(buf, runs) == \E k \in 1..Len(runs) : Rejected(buf, runs[k])

\* ------------------------------------------------------------- exceptions
NoException == [type |-> "none", msg |-> ""]
TimestampNotFound == [type |-> "Exception", msg |-> "Timestamp index not found!"]
NoneHasNo(attr) == [type |-> "AttributeError", msg |-> attr]
CellRejected == [type |-> "HostError", msg |-> "set_cell"]

\* ---------------------------------------------------------------- decoder
RV32I == {"I"}
RV32IM == {"I", "M"}
RV32IC == {"I", "C"}
RV32IMC == {"I", "M", "C"}

\* Instruction classes: the declared opcode, the bit pattern of the class's
\* own match (mask, bits), the variant it belongs to, and its rendering.
Lui == [name |-> "lui", compact |-> FALSE, variant |-> RV32I, opcode |-> 55,
        mask |-> 0, bits |-> 0, text |-> <<"l","u","i">>]
Nop == [name |-> "nop", compact |-> FALSE, variant |-> RV32I, opcode |-> 19,
        mask |-> 2147479552, bits |-> 0, text |-> <<"n","o","p">>]
Addi == [name |-> "addi", compact |-> FALSE, variant |-> RV32I, opcode |-> 19,
         mask |-> 28672, bits |-> 0, text |-> <<"a","d","d","i">>]
Add == [name |-> "add", compact |-> FALSE, variant |-> RV32I, opcode |-> 51,
        mask |-> 2113957888, bits |-> 0, text |-> <<"a","d","d">>]
Mul == [name |-> "mul", compact |-> FALSE, variant |-> RV32IM, opcode |-> 51,
        mask |-> 2113957888, bits |-> 33554432, text |-> <<"m","u","l">>]
CNop == [name |-> "c.nop", compact |-> TRUE, variant |-> RV32IC, opcode |-> 1,
         mask |-> 65535, bits |-> 1, text |-> <<"c",".","n","o","p">>]
CAddi == [name |-> "c.addi", compact |-> TRUE, variant |-> RV32IC, opcode |-> 1,
          mask |-> 57347, bits |-> 1, text |-> <<"c",".","a","d","d","i">>]

Pool == {Lui, Nop, Addi, Add, Mul, CNop, CAddi}

\* The catalog the render pass decodes with.
Catalog == <<Lui, Nop, Addi, Add, Mul, CNop, CAddi>>

\* get_insns(cls=InstructionCType): the compact classes, in declaration order
CompactInsns == SelectSeq(insns, LAMBDA c : c.compact)

\* get_insns(variant=variant): the classes of the variant, in declaration order
VariantInsns(var) == SelectSeq(insns, LAMBDA c : c.variant \subseteq var)

\* icls._match(word) / icls.match(word): the class's own bit pattern
match(icls, w) == BitAnd(w, icls.mask) = icls.bits

MachineDecodeError(w) ==
    [type |-> "MachineDecodeError", msg |-> "Invalid instruction word", word |-> w]

\* line 20: the test of the compact scan
AcceptsCompact(icls, w) == match(icls, w)

AcceptsPattern(icls, w, opcode) == match(icls, w)

\* line 27: the test of the standard scan
AcceptsStandard(icls, w, opcode) == icls.opcode = opcode /\ match(icls, w)

RECURSIVE ScanCompact(_, _)
ScanCompact(list, w) ==
    IF list = <<>> THEN [ok |-> FALSE, exc |-> MachineDecodeError(w)]
    ELSE IF AcceptsCompact(Head(list), w) THEN [ok |-> TRUE, inst |-> Head(list)]
    ELSE ScanCompact(Tail(list), w)

RECURSIVE ScanStandard(_, _, _)
ScanStandard(list, w, opcode) ==
    IF list = <<>> THEN [ok |-> FALSE, exc |-> MachineDecodeError(w)]
    ELSE IF AcceptsStandard(Head(list), w, opcode)
         THEN [ok |-> TRUE, inst |-> Head(list)]
    ELSE ScanStandard(Tail(list), w, opcode)

decode(w, var) ==
    IF BitAnd(w, 3) # 3 THEN ScanCompact(CompactInsns, w)
    ELSE ScanStandard(VariantInsns(var), w, BitAnd(w, 127))

\* ---------------------------------------------------------------- lookups
LookupVariable(path) == [op |-> "get_variable", path |-> path]
LookupValue(path) == [op |-> "search_value", path |-> path]

\* signal = vcd_header.get_variable(path)
\* result = waveform.search_value(signal.get_idcode(), timestamp_index)
\* value = result.get_vector().get_value()
Fetch(path) ==
    LET signal == get_variable(vcd_header, path)
    IN IF ~signal.some
       THEN [log |-> <<LookupVariable(path)>>, exc |-> NoneHasNo("get_idcode")]
       ELSE LET res == search_value(waveform, signal.idcode, timestamp_index)
            IN IF ~res.some
               THEN [log |-> <<LookupVariable(path), LookupValue(signal.idcode)>>,
                     exc |-> NoneHasNo("get_vector")]
               ELSE [log |-> <<LookupVariable(path), LookupValue(signal.idcode)>>,
                     exc |-> NoException, value |-> res.value]

RECURSIVE FetchAll(_)
\* The fetches of one loop body, in order, up to the first that raises.
FetchAll(paths) ==
    IF paths = <<>> THEN [log |-> <<>>, exc |-> NoException, values |-> <<>>]
    ELSE LET first == Fetch(Head(paths))
         IN IF first.exc # NoException
            THEN [log |-> first.log, exc |-> first.exc, values |-> <<>>]
            ELSE LET rest == FetchAll(Tail(paths))
                 IN [log |-> first.log \o rest.log, exc |-> rest.exc,
                     values |-> <<first.value>> \o rest.values]

\* ---------------------------------------------------------------- layout
RegLine == 8
InstrLine == 20

RegistersHeader == <<"-","-","R","e","g","i","s","t","e","r","s">>
InstructionsHeader == <<"-","-","I","n","s","t","r","u","c","t","i","o","n","s">>

\* for x in range(buffer.get_width()): header[x] if x < len(header) else "-"
DashRun(header, line) ==
    [row |-> line, col |-> 0,
     text |-> [k \in 1..get_width(buffer) |->
                  IF k - 1 < Len(header) THEN header[k] ELSE "-"]]

reg_status_clamped(front, rear) == IF front < rear THEN 0 ELSE front - rear

\* line 109
reg_status(front, rear) == BitAnd(front - rear, 7)

\* lines 107-110
RegInfo(r, value, front, rear) ==
    ljust(<<"x">> \o str(r), 3) \o <<" ", "(">> \o ljust(get_reg_name(r), 3)
        \o <<")", " ">> \o Hex08(value) \o <<" ", "(">>
        \o str(reg_status(front, rear)) \o <<")">>

reg_x_packed(r) == (r \div 8) * 24

\* line 118
reg_x(r) == (r \div 8) * 32

reg_y_halved(r) == r % 4

\* line 119
reg_y(r) == r % 8

\* lines 120-121
RegRun(r, info, line) == [row |-> reg_y(r) + line + 1, col |-> reg_x(r), text |-> info]

marker_first(offset) == IF offset = -3 THEN ">" ELSE "-"

\* line 148
marker(offset) == IF offset = 0 THEN ">" ELSE "-"

TryUncaught(d) ==
    IF d.ok THEN [exc |-> NoException, text |-> d.inst.text]
    ELSE [exc |-> d.exc, text |-> <<>>]

\* lines 149-152: try: inst = decode(mem_value); except: inst = "<unknown>"
Try(d) ==
    IF d.ok THEN [exc |-> NoException, text |-> d.inst.text]
    ELSE [exc |-> NoException, text |-> <<"<","u","n","k","n","o","w","n",">">>]

\* lines 153-155
InstrInfo(offset, pc_offset, mem_value, inst) ==
    <<marker(offset)>> \o Hex08(pc_offset) \o <<" ", "(">> \o Hex08(mem_value)
        \o <<")", " ">> \o inst

\* line 157
instr_row(line, idx) == line + idx + 1

never_skipped(pc_offset) == FALSE

\* line 140
skipped(pc_offset) == pc_offset < 0

\* ------------------------------------------------------------------ inputs
Times == <<10, 20>>
Cursors == {5, 10, 15, 25}
Widths == {8, 40, 80, 120, 128}
ValueSeeds == {0, 305419896, 2147483392}
Words == {0, 1, 3, 5, 19, 51, 55, 4115, 33554483, 2147483647}
Variants == {RV32I, RV32IM, RV32IC, RV32IMC}

RegisterPaths ==
    {get_reg_path(r) : r \in 0..31}
        \cup {get_reg_status_front_path(r) : r \in 0..31}
        \cup {get_reg_status_rear_path(r) : r \in 0..31}

AllPaths == RegisterPaths \cup {get_pc_path} \cup {get_mem_path(a) : a \in 0..(MaxPC + 3)}

SomePaths == {get_reg_path(0), get_reg_status_rear_path(31), get_pc_path, get_mem_path(3)}

Default ==
    [cursor |-> 15, width |-> 120, strict |-> FALSE, fseed |-> 1, rseed |-> 6,
     vseed |-> 0, pc |-> 3, shift |-> 0, habsent |-> {}, vabsent |-> {}]

\* one lookup that returns nothing, anywhere in the pass
SingleFaults ==
    {[Default EXCEPT !.pc = p, !.habsent = {q}] : p \in 0..MaxPC, q \in AllPaths}
        \cup {[Default EXCEPT !.pc = p, !.vabsent = {q}] : p \in 0..MaxPC, q \in AllPaths}

\* several lookups that return nothing
ManyFaults ==
    {[Default EXCEPT !.habsent = h, !.vabsent = v] :
        h \in SUBSET SomePaths, v \in SUBSET SomePaths}

\* grids and cursors
Grids ==
    {[Default EXCEPT !.cursor = c, !.width = w, !.strict = s, !.pc = p] :
        c \in Cursors, w \in Widths, s \in BOOLEAN, p \in {0, 3}}

\* counters and register values
Counters ==
    {[Default EXCEPT !.fseed = f, !.rseed = r, !.vseed = v] :
        f \in 0..MaxCounter, r \in 0..MaxCounter, v \in ValueSeeds}

\* program counters and memory images
Windows ==
    {[Default EXCEPT !.pc = p, !.shift = sh, !.width = w, !.strict = s] :
        p \in 0..MaxPC, sh \in 0..(Len(Program) - 1), w \in {40, 120}, s \in BOOLEAN}

Configs == SingleFaults \cup ManyFaults \cup Grids \cup Counters \cup Windows

Pending == [ok |-> FALSE, exc |-> [type |-> "pending", msg |-> "", word |-> 0]]

Init ==
    \E cfg \in Configs :
        /\ cursor = cfg.cursor
        /\ waveform = [times |-> Times, fseed |-> cfg.fseed, rseed |-> cfg.rseed,
                       vseed |-> cfg.vseed, pc |-> cfg.pc, shift |-> cfg.shift,
                       absent |-> cfg.vabsent]
        /\ vcd_header = [absent |-> cfg.habsent]
        /\ buffer = [width |-> cfg.width, strict |-> cfg.strict, cells |-> <<>>]
        /\ insns = Catalog
        /\ stage = "main"
        /\ timestamp_index = [some |-> FALSE]
        /\ reg = 0
        /\ i = 0
        /\ pc_value = 0
        /\ calls = <<>>
        /\ log = <<>>
        /\ exc = NoException
        /\ word = 0
        /\ variant = RV32I
        /\ result = Pending

\* ----------------------------------------------------------------- actions
\* The set_cell calls of one step: the grid takes them, or rejects one and
\* the pass ends there.
Emit(runs, next) ==
    /\ calls' = AttemptedRuns(buffer, runs)
    /\ buffer' = [buffer EXCEPT !.cells = WriteRuns(@, TakenRuns(buffer, runs))]
    /\ IF AnyRejected(buffer, runs)
       THEN exc' = CellRejected /\ stage' = "error"
       ELSE exc' = exc /\ stage' = next

Raise(e) ==
    /\ exc' = e
    /\ stage' = "error"
    /\ calls' = <<>>
    /\ buffer' = buffer

TimestampLabel == <<"T","i","m","e","s","t","a","m","p",":"," "," "," "," "," "," "," ">>
TimestampIndexLabel == <<"T","i","m","e","s","t","a","m","p"," ","I","n","d","e","x",":"," ">>

\* main, up to the call of get_reg_info
Main ==
    /\ stage = "main"
    /\ LET ts == search_timestamp(waveform, cursor)
       IN /\ timestamp_index' = ts
          /\ IF ~ts.some THEN Raise(TimestampNotFound)
             ELSE Emit(<< [row |-> 1, col |-> 0,
                           text |-> TimestampLabel \o str(get_timestamp(waveform, ts.index))],
                          [row |-> 2, col |-> 0,
                           text |-> TimestampIndexLabel \o str(ts.index)] >>,
                       "regs")
    /\ UNCHANGED <<cursor, waveform, vcd_header, insns, reg, i, pc_value, log,
                   word, variant, result>>

\* one iteration of get_reg_info's loop
RegStep ==
    /\ stage = "regs"
    /\ LET f == FetchAll(<<get_reg_path(reg), get_reg_status_front_path(reg),
                           get_reg_status_rear_path(reg)>>)
       IN /\ log' = log \o f.log
          /\ IF f.exc # NoException THEN Raise(f.exc) /\ reg' = reg
             ELSE /\ Emit(<< DashRun(RegistersHeader, RegLine),
                             RegRun(reg, RegInfo(reg, f.values[1], f.values[2], f.values[3]),
                                    RegLine) >>,
                          IF reg = 31 THEN "pc" ELSE "regs")
                  /\ reg' = IF stage' = "error" THEN reg ELSE reg + 1
    /\ UNCHANGED <<cursor, waveform, vcd_header, insns, timestamp_index, i, pc_value,
                   word, variant, result>>

\* get_instruction_info, up to its loop
PcStep ==
    /\ stage = "pc"
    /\ LET f == Fetch(get_pc_path)
       IN /\ log' = log \o f.log
          /\ IF f.exc # NoException THEN Raise(f.exc) /\ pc_value' = pc_value
             ELSE /\ pc_value' = f.value
                  /\ Emit(<<DashRun(InstructionsHeader, InstrLine)>>, "instr")
    /\ UNCHANGED <<cursor, waveform, vcd_header, insns, timestamp_index, reg, i,
                   word, variant, result>>

\* one iteration of get_instruction_info's loop that takes the continue
InstrSkip ==
    /\ stage = "instr"
    /\ skipped(pc_value + (i - 3))
    /\ i' = i + 1
    /\ stage' = IF i = 6 THEN "return" ELSE "instr"
    /\ calls' = <<>>
    /\ UNCHANGED <<cursor, waveform, vcd_header, buffer, insns, timestamp_index, reg,
                   pc_value, log, exc, word, variant, result>>

\* one iteration of get_instruction_info's loop that reaches the lookups
InstrStep ==
    /\ stage = "instr"
    /\ ~skipped(pc_value + (i - 3))
    /\ LET offset == i - 3
           pc_offset == pc_value + offset
           f == Fetch(get_mem_path(pc_offset))
           inst == Try(decode(f.value, RV32I))
       IN /\ log' = log \o f.log
          /\ IF f.exc # NoException THEN Raise(f.exc) /\ i' = i
             ELSE IF inst.exc # NoException THEN Raise(inst.exc) /\ i' = i
             ELSE /\ Emit(<< [row |-> instr_row(InstrLine, i), col |-> 0,
                              text |-> InstrInfo(offset, pc_offset, f.value, inst.text)] >>,
                          IF i = 6 THEN "return" ELSE "instr")
                  /\ i' = IF stage' = "error" THEN i ELSE i + 1
    /\ UNCHANGED <<cursor, waveform, vcd_header, insns, timestamp_index, reg, pc_value,
                   word, variant, result>>

\* main's return buffer
Return ==
    /\ stage = "return"
    /\ stage' = "done"
    /\ calls' = <<>>
    /\ UNCHANGED <<cursor, waveform, vcd_header, buffer, insns, timestamp_index, reg,
                   i, pc_value, log, exc, word, variant, result>>

Next == Main \/ RegStep \/ PcStep \/ InstrSkip \/ InstrStep \/ Return

Spec == Init /\ [][Next]_vars

\* ------------------------------------------------------------ decoder runs
Injective(s) == \A a, b \in DOMAIN s : a # b => s[a] # s[b]

\* the catalogs of at most MaxInsns classes, in every declaration order
Catalogs ==
    UNION {{s \in [1..n -> Pool] : Injective(s)} : n \in 0..MaxInsns}

InitDecode ==
    /\ word \in Words
    /\ variant \in Variants
    /\ insns \in Catalogs
    /\ result = Pending
    /\ stage = "decode"
    /\ cursor = Default.cursor
    /\ waveform = [times |-> Times, fseed |-> 0, rseed |-> 0, vseed |-> 0, pc |-> 0,
                   shift |-> 0, absent |-> {}]
    /\ vcd_header = [absent |-> {}]
    /\ buffer = [width |-> Default.width, strict |-> FALSE, cells |-> <<>>]
    /\ timestamp_index = [some |-> FALSE]
    /\ reg = 0
    /\ i = 0
    /\ pc_value = 0
    /\ calls = <<>>
    /\ log = <<>>
    /\ exc = NoException

\* one call of decode
Decode ==
    /\ stage = "decode"
    /\ result' = decode(word, variant)
    /\ stage' = "decoded"
    /\ UNCHANGED <<cursor, waveform, vcd_header, buffer, insns, timestamp_index, reg,
                   i, pc_value, calls, log, exc, word, variant>>

NextDecode == Decode

SpecDecode == InitDecode /\ [][NextDecode]_vars

\* ------------------------------------------------------------- properties
Written(row, col) == row \in DOMAIN buffer.cells /\ col \in DOMAIN buffer.cells[row]

\* the cells of a row that starts at column 0, as text
RowText(row) ==
    [k \in 1..Cardinality(DOMAIN buffer.cells[row]) |-> buffer.cells[row][k - 1]]

PanelRows == (RegLine .. (RegLine + 8)) \cup (InstrLine .. (InstrLine + 7))

LookupFailed == stage = "error" /\ exc.type = "AttributeError"

\* C1: a pass in which a header or waveform lookup returns nothing ends with
\* no register-panel cell and no instruction-panel cell written.
C1_NoPartialSnapshot ==
    LookupFailed => (DOMAIN buffer.cells) \cap PanelRows = {}

SignalNotFound == [type |-> "Exception", msg |-> "signal not found"]
ValueNotFound == [type |-> "Exception", msg |-> "value not found"]

FailedLookup(entry) ==
    \/ entry.op = "get_variable" /\ entry.path \in vcd_header.absent
    \/ entry.op = "search_value" /\ entry.path \in waveform.absent

\* C2: every lookup that returns nothing ends the pass there, before any
\* later lookup, with the named error of its kind: timestamp not found,
\* signal not found, value not found.
C2_NamedErrors ==
    /\ \A k \in 1..Len(log) : FailedLookup(log[k]) => k = Len(log) /\ stage = "error"
    /\ (stage # "main" /\ ~timestamp_index.some) =>
           stage = "error" /\ exc = TimestampNotFound /\ log = <<>>
    /\ LookupFailed =>
           /\ log # <<>>
           /\ log[Len(log)].op = "get_variable" => exc = SignalNotFound
           /\ log[Len(log)].op = "search_value" => exc = ValueNotFound

Front(r) == SignalValue(waveform, get_reg_status_front_path(r))
Rear(r) == SignalValue(waveform, get_reg_status_rear_path(r))

\* C3: the hazard depth rendered for every register is (front - rear) mod 8,
\* a digit in 0..7, also when front < rear.
C3_HazardDepth ==
    \A r \in 0..31 :
        r < reg =>
            LET depth == (Front(r) - Rear(r)) % 8
                row == RegLine + 1 + (r % 8)
                col == (r \div 8) * 32 + 22
            IN /\ depth \in 0..7
               /\ Written(row, col)
               /\ buffer.cells[row][col] = HexDigits[depth + 1]
               /\ buffer.cells[row][col - 1] = "("
               /\ buffer.cells[row][col + 1] = ")"

C3_Witness ==
    /\ reg > 0
    /\ Front(0) = 1
    /\ Rear(0) = 6
    /\ buffer.cells[RegLine + 1][22] = "3"

\* no class of the catalog takes the word, under the base variant
Undecodable(w) ==
    ~\E k \in DOMAIN insns :
        IF w % 4 # 3 THEN insns[k].compact /\ match(insns[k], w)
        ELSE /\ insns[k].variant \subseteq RV32I
             /\ insns[k].opcode = w % 128
             /\ match(insns[k], w)

MemWord(k) == SignalValue(waveform, get_mem_path(pc_value + k - 3))

Unknown == <<"<","u","n","k","n","o","w","n",">">>

\* C4: a word that does not decode gets <unknown> on its own row, and only
\* such a word; the decode error never ends the pass and the other rows of
\* the window are looked up and written; a memory word whose signal or
\* value is missing ends the pass.
C4_DecodeFailureIsLocal ==
    /\ exc.type # "MachineDecodeError"
    /\ \A k \in 0..6 :
           (k < i /\ pc_value + k - 3 >= 0) =>
               LET row == InstrLine + k + 1
               IN /\ row \in DOMAIN buffer.cells
                  /\ LookupVariable(get_mem_path(pc_value + k - 3)) \in
                         {log[n] : n \in DOMAIN log}
                  /\ get_mem_path(pc_value + k - 3) \notin
                         vcd_header.absent \cup waveform.absent
                  /\ Len(RowText(row)) > 25
                  /\ (SubSeq(RowText(row), 26, Len(RowText(row))) = Unknown)
                         <=> Undecodable(MemWord(k))
    /\ stage = "done" => i = 7

C4_Witness ==
    /\ stage = "done"
    /\ \E k \in 0..5 :
           /\ pc_value + k - 3 >= 0
           /\ Undecodable(MemWord(k))
           /\ ~Undecodable(MemWord(k + 1))
           /\ SubSeq(RowText(InstrLine + k + 1), 26, 34) = Unknown
           /\ (InstrLine + k + 2) \in DOMAIN buffer.cells

\* C5: an offset whose address PC + o is negative is skipped: no lookup is
\* made for a memory path with a negative address and no cell of its row is
\* written; the offsets with PC + o >= 0 are looked up and written.
C5_NegativeSkipped ==
    /\ \A n \in DOMAIN log :
           log[n].path.prefix = get_mem_path(0).prefix => log[n].path.index >= 0
    /\ \A k \in 0..6 :
           k < i =>
               IF pc_value + k - 3 < 0
               THEN (InstrLine + k + 1) \notin DOMAIN buffer.cells
               ELSE /\ (InstrLine + k + 1) \in DOMAIN buffer.cells
                    /\ LookupVariable(get_mem_path(pc_value + k - 3)) \in
                           {log[n] : n \in DOMAIN log}

C5_Witness ==
    /\ stage = "done"
    /\ pc_value = 1
    /\ (InstrLine + 1) \notin DOMAIN buffer.cells
    /\ (InstrLine + 2) \notin DOMAIN buffer.cells
    /\ (InstrLine + 3) \in DOMAIN buffer.cells

\* C6: every set_cell call of a pass has 0 <= col < get_width().
C6_InBounds ==
    \A k \in DOMAIN calls :
        \A n \in 1..Len(calls[k].text) :
            /\ 0 <= calls[k].col + n - 1
            /\ calls[k].col + n - 1 < get_width(buffer)

\* the classes the claim lets a word take, by their place in the catalog
Accepted(w, var) ==
    {k \in DOMAIN insns :
        IF w % 4 # 3 THEN insns[k].compact /\ match(insns[k], w)
        ELSE /\ ~insns[k].compact
             /\ insns[k].variant \subseteq var
             /\ insns[k].opcode = w % 128
             /\ match(insns[k], w)}

\* C7: decode returns the first class, in declaration order, of the catalog
\* the two low bits select (compact, or standard of the variant with the
\* declared opcode and a matching pattern) and raises MachineDecodeError
\* with the word exactly when there is none.
C7_FirstMatch ==
    stage = "decoded" =>
        LET acc == Accepted(word, variant)
        IN /\ result.ok <=> acc # {}
           /\ result.ok =>
                  /\ result.inst = insns[CHOOSE k \in acc : \A m \in acc : k <= m]
                  /\ result.inst.compact <=> (word % 4 # 3)
           /\ ~result.ok => result.exc = MachineDecodeError(word)

C7_Witness ==
    /\ stage = "decoded"
    /\ result.ok
    /\ Cardinality(Accepted(word, variant)) = 2
    /\ \E k \in DOMAIN insns : k > 1 /\ insns[k].compact /\ word % 4 = 3

\* C8: register r's text starts at column (r div 8) * 32 of row r mod 8
\* below the dash row, one character per column, and the dash row spans
\* columns 0..width-1 with the header cut to the width.
C8_RegisterLayout ==
    /\ \A r \in 0..31 :
           r < reg =>
               LET info == RegInfo(r, SignalValue(waveform, get_reg_path(r)),
                                   Front(r), Rear(r))
                   row == RegLine + 1 + (r % 8)
                   col == (r \div 8) * 32
               IN /\ \A k \in 1..Len(info) :
                         Written(row, col + k - 1) /\ buffer.cells[row][col + k - 1] = info[k]
                  /\ buffer.cells[row][col] = "x"
                  /\ str(r) = [k \in 1..Len(str(r)) |-> buffer.cells[row][col + k]]
                  /\ ~Written(row, col + Len(info))
                  /\ col > 0 => ~Written(row, col - 1)
    /\ reg > 0 =>
           /\ DOMAIN buffer.cells[RegLine] = 0..(buffer.width - 1)
           /\ \A x \in 0..(buffer.width - 1) :
                  buffer.cells[RegLine][x] =
                      IF x < 11 THEN RegistersHeader[x + 1] ELSE "-"

C8_Witness ==
    /\ reg = 32
    /\ buffer.width = 8
    /\ buffer.cells[RegLine + 2][32] = "x"
    /\ buffer.cells[RegLine + 2][33] = "9"
    /\ Cardinality(DOMAIN buffer.cells[RegLine]) = 8

InstrRows == (InstrLine + 1) .. (InstrLine + 7)

\* C9: the row of offset o is data row o + 3 of the instruction panel; it
\* begins with > for offset 0 and with - otherwise, so a finished pass has
\* exactly one > row, the fourth.
C9_Marker ==
    /\ \A k \in 0..6 :
           (k < i /\ pc_value + k - 3 >= 0) =>
               /\ Written(InstrLine + 1 + k, 0)
               /\ buffer.cells[InstrLine + 1 + k][0] = IF k = 3 THEN ">" ELSE "-"
               /\ SubSeq(RowText(InstrLine + 1 + k), 2, 11) = Hex08(pc_value + k - 3)
    /\ stage = "done" =>
           {row \in InstrRows : Written(row, 0) /\ buffer.cells[row][0] = ">"}
               = {InstrLine + 4}
    /\ \A row \in DOMAIN buffer.cells : row > InstrLine => row \in InstrRows

C9_Witness ==
    /\ stage = "done"
    /\ pc_value = 0
    /\ buffer.cells[InstrLine + 4][0] = ">"
    /\ buffer.cells[InstrLine + 5][0] = "-"
    /\ (InstrLine + 3) \notin DOMAIN buffer.cells

RowsOf(st) ==
    IF st = "main" THEN {1, 2}
    ELSE IF st = "regs" THEN RegLine .. (RegLine + 8)
    ELSE IF st = "pc" THEN {InstrLine}
    ELSE InstrRows

\* C10: no cell is assigned two different characters in a pass: a call the
\* grid takes repeats the character the cell already holds, the calls of
\* one step agree, and each part of main writes its own rows.
C10_NoCellReassigned ==
    [][\A k \in DOMAIN calls' :
           /\ calls'[k].row \in RowsOf(stage)
           /\ \A n \in 1..Len(calls'[k].text) :
                  LET row == calls'[k].row
                      col == calls'[k].col + n - 1
                  IN (~buffer.strict \/ col < buffer.width) =>
                         /\ Written(row, col) => buffer.cells[row][col] = calls'[k].text[n]
                         /\ buffer'.cells[row][col] = calls'[k].text[n]]_vars

C10_Witness ==
    /\ stage = "done"
    /\ DOMAIN buffer.cells = {1, 2} \cup PanelRows
    /\ buffer.width = 128
====
